---- MODULE Spec2Model ----
(***************************************************************************)
(* A model of the neo-ebpf userspace runner (rust-runner):                 *)
(*   - bpf_map.rs  iterate_task_info: the next-key / lookup cursor walk    *)
(*                 over a pinned BPF hash map that the kernel-side program *)
(*                 mutates concurrently;                                   *)
(*   - stats.rs    RollingStats (per-pid deltas and EWMA) and              *)
(*                 simulate_lottery_draws (roulette-wheel selection);      *)
(*   - main.rs     the polling loops run_dump and tui_loop: read the       *)
(*                 table, enrich_entries, deadline alerts, CSV / NDJSON    *)
(*                 rows and the trace export.                              *)
(* Each component has its own specification (SpecTable, SpecStats,         *)
(* SpecDraws, SpecDump) over the shared variable tuple; the variables of   *)
(* the components a specification does not run stay at their idle values.  *)
(***************************************************************************)
EXTENDS Integers, Sequences, FiniteSets, TLC

\* ------------------------------------------------------------------------
\* Bounds of the model
\* ------------------------------------------------------------------------

\* Task ids (map keys) are 1..NumKeys.
NumKeys == 3

\* How many writes (insert/update/delete) the kernel-side producer performs
\* while one read is in progress.
MaxProducerOps == 2

\* RollingStats is driven with task ids 1..NumPids, runtime_ns values
\* 0..MaxRuntime and switches values 0..MaxSwitches, for MaxUpdates calls.
NumPids == 2
MaxRuntime == 1
MaxSwitches == 1
MaxUpdates == 3

\* simulate_lottery_draws is run on populations of at most MaxPop snapshots
\* with task ids 1..NumPids and tickets 0..MaxTickets, for 0..MaxDraws draws.
MaxPop == 2
MaxTickets == 2
MaxDraws == 2

\* A polling run makes at most MaxIterations iterations.
MaxIterations == 2

VARIABLES
    \* --- the pinned BPF map (kernel side) ---
    order,          \* kernel-internal hash order: a permutation of the keys
    table,          \* live entries: a function from the present keys to TaskInfo
    producer_ops,   \* writes performed by the producer so far
    \* --- iterate_task_info (bpf_map.rs:38-87) ---
    pc,             \* "idle" | "next_key" | "lookup" | "done"
    entries,        \* Vec<(u32, TaskInfo)>
    key,            \* u32
    next_key,       \* u32
    first,          \* bool
    ret,            \* return value of the last bpf_map_get_next_key call
    lookup_ret,     \* return value of the last bpf_map_lookup_elem call
    errno,          \* io::Error::last_os_error() of the last failed call
    result,         \* io::Result<Vec<(u32, TaskInfo)>>
    \* --- RollingStats (stats.rs:37-63) ---
    alpha,              \* f64
    prev_runtime_ns,    \* HashMap<u32, u64>
    prev_switches,      \* HashMap<u32, u64>
    rolling_runtime_ms, \* HashMap<u32, f64>
    updates,            \* number of update calls made so far
    call,               \* the arguments of the latest update call
    update_ret,         \* the tuple the latest update call returned
    earlier,            \* what the latest call's pid was last updated with
    history,            \* per pid, the arguments and result of its last update
    \* --- simulate_lottery_draws (stats.rs:73-104) ---
    population,     \* &[TaskSnapshot]: the pid and info.tickets of each
    draws,          \* u32
    rng_stream,     \* what the generator yields, sample by sample, from its seed
    rng_pos,        \* samples taken from the generator since it was seeded
    draw_pc,        \* "idle" | "drawing" | "collect" | "done" | "panicked"
    counts,         \* HashMap<u32, u32>
    credited,       \* per draw made, the target sampled and the index credited
    pairs,          \* the returned Vec<(u32, u32)>
    invocation,     \* 1 for the first call, 2 for the repeated one
    first_pairs,    \* what the first call returned
    \* --- run_dump (main.rs:166-245) and tui_loop (main.rs:267-300) ---
    args,           \* the parsed command line (DumpArgs / TuiArgs)
    iteration,      \* loop bodies completed so far
    run_status,     \* "running" | "ok" | "err": what the command returned
    window_ms,      \* the window_ms of the latest loop body
    total_tickets,  \* the total_tickets of the latest loop body
    snapshots,      \* the Vec<TaskSnapshot> of the latest loop body
    alerts,         \* the deadline alert lines the latest loop body printed
    csv_rows,       \* rows appended to the CSV file so far
    json_rows,      \* lines appended to the NDJSON file so far
    trace_events,   \* Vec<TraceEvent>
    trace_file,     \* the documents written to the trace path, in order
    tui_history,    \* samples pushed to the HistoryWindow
    before          \* the engine and the export sizes when the latest body began

tableVars == <<order, table, producer_ops>>
readVars == <<pc, entries, key, next_key, first, ret, lookup_ret, errno, result>>
statsVars == <<alpha, prev_runtime_ns, prev_switches, rolling_runtime_ms, updates,
               call, update_ret, earlier, history>>
drawVars == <<population, draws, rng_stream, rng_pos, draw_pc, counts, credited,
              pairs, invocation, first_pairs>>
dumpVars == <<args, iteration, run_status, window_ms, total_tickets, snapshots, alerts,
              csv_rows, json_rows, trace_events, trace_file, tui_history, before>>
vars == <<tableVars, readVars, statsVars, drawVars, dumpVars>>

\* ------------------------------------------------------------------------
\* Data
\* ------------------------------------------------------------------------

Keys == 1 .. NumKeys

\* stats.rs:5-13. nice and last_switch_in_ts are carried but never read by
\* the code modelled here.
TaskInfo(runtime_ns, switches, nice, tickets, last_switch_in_ts) ==
    [runtime_ns |-> runtime_ns, switches |-> switches, nice |-> nice,
     tickets |-> tickets, last_switch_in_ts |-> last_switch_in_ts]

\* TaskInfo::default()
TaskInfoDefault == TaskInfo(0, 0, 0, 0, 0)

\* The record the producer holds for a task after its n-th write: runtime_ns
\* and switches are accumulating counters, so a later write stores more.
ProducedInfo(n) == TaskInfo(n, n, 0, 1, 0)

\* All orderings of a finite set, as sequences without repetition.
Perms(S) ==
    {p \in [1 .. Cardinality(S) -> S] : \A i, j \in DOMAIN p : i # j => p[i] # p[j]}

\* libc errno values: ENOENT, and EIO standing for every other errno.
ENOENT == "ENOENT"
EIO == "EIO"
NoErrno == "none"

\* ------------------------------------------------------------------------
\* The kernel's side of the two system calls (hash map semantics)
\* ------------------------------------------------------------------------

\* Position of key k in the hash order.
PosOf(ord, k) == CHOOSE i \in DOMAIN ord : ord[i] = k

\* The live keys at positions after `from`, in hash order.
LiveAfter(tab, ord, from) == {i \in DOMAIN ord : i > from /\ ord[i] \in DOMAIN tab}

\* bpf_map_get_next_key on a hash map: with a NULL key, or a key that is no
\* longer in the map, the walk (re)starts at the first live element; otherwise
\* it continues after the given key. No element left: -1 with ENOENT.
\* Any call may also fail with another errno.
NextKeyOutcomes(tab, ord, isFirst, k) ==
    LET from == IF isFirst \/ k \notin DOMAIN tab THEN 0 ELSE PosOf(ord, k)
        live == LiveAfter(tab, ord, from)
    IN  (IF live = {}
            THEN {[ret |-> -1, errno |-> ENOENT, next_key |-> 0]}
            ELSE {[ret |-> 0, errno |-> NoErrno,
                   next_key |-> ord[CHOOSE i \in live : \A j \in live : i <= j]]})
        \cup {[ret |-> -1, errno |-> EIO, next_key |-> 0]}

\* bpf_map_lookup_elem: the value of a live key; -1 with ENOENT for a key that
\* is not (or no longer) in the map. Any call may also fail with another errno.
LookupOutcomes(tab, k) ==
    (IF k \in DOMAIN tab
        THEN {[ret |-> 0, errno |-> NoErrno, value |-> tab[k]]}
        ELSE {[ret |-> -1, errno |-> ENOENT, value |-> TaskInfoDefault]})
    \cup {[ret |-> -1, errno |-> EIO, value |-> TaskInfoDefault]}

\* ------------------------------------------------------------------------
\* iterate_task_info (bpf_map.rs:38-87)
\* ------------------------------------------------------------------------

Ok(list) == [kind |-> "ok", entries |-> list, err |-> NoErrno]
Err(e) == [kind |-> "err", entries |-> <<>>, err |-> e]
NoResult == [kind |-> "none", entries |-> <<>>, err |-> NoErrno]

\* A variant of IsEndOfTable that takes every errno for the end of the table.
IsEndOfTableAlways(e) == TRUE

\* bpf_map.rs:61  err.raw_os_error() == Some(libc::ENOENT)
IsEndOfTable(e) == e = ENOENT

\* Insert e behind every element whose pid is <= e's pid (a stable insertion).
RECURSIVE InsertByKey(_, _)
InsertByKey(s, e) ==
    IF s = <<>> THEN <<e>>
    ELSE IF s[Len(s)][1] <= e[1] THEN Append(s, e)
    ELSE Append(InsertByKey(SubSeq(s, 1, Len(s) - 1), e), s[Len(s)])

RECURSIVE StableSortByKey(_)
StableSortByKey(s) ==
    IF s = <<>> THEN <<>>
    ELSE InsertByKey(StableSortByKey(SubSeq(s, 1, Len(s) - 1)), s[Len(s)])

\* A variant of SortByKey that returns the entries in enumeration order.
SortByKeyOmitted(s) == s

\* bpf_map.rs:85  entries.sort_by_key(|(pid, _)| *pid)  (a stable sort)
SortByKey(s) == StableSortByKey(s)

\* bpf_map.rs:39-42: the locals of a new call.
ReadBegin ==
    /\ pc = "idle"
    /\ pc' = "next_key"
    /\ entries' = <<>>
    /\ key' = 0
    /\ next_key' = 0
    /\ first' = TRUE
    /\ UNCHANGED <<ret, lookup_ret, errno, result, tableVars, statsVars, drawVars, dumpVars>>

\* bpf_map.rs:44-69 and 85-86: one bpf_map_get_next_key call and what the
\* loop does with its return value.
GetNextKey ==
    /\ pc = "next_key"
    /\ \E o \in NextKeyOutcomes(table, order, first, key) :
        /\ ret' = o.ret
        /\ errno' = o.errno
        /\ IF o.ret < 0
              THEN /\ pc' = "done"
                   /\ result' = IF IsEndOfTable(o.errno)
                                   THEN Ok(SortByKey(entries))
                                   ELSE Err(o.errno)
                   /\ UNCHANGED <<first, key, next_key>>
              ELSE /\ pc' = "lookup"
                   /\ first' = FALSE
                   /\ next_key' = o.next_key
                   /\ key' = o.next_key
                   /\ UNCHANGED result
    /\ UNCHANGED <<entries, lookup_ret, tableVars, statsVars, drawVars, dumpVars>>

\* bpf_map.rs:71-82: the point lookup of the key just enumerated.
Lookup ==
    /\ pc = "lookup"
    /\ \E o \in LookupOutcomes(table, key) :
        /\ lookup_ret' = o.ret
        /\ IF o.ret < 0
              THEN /\ pc' = "done"
                   /\ errno' = o.errno
                   /\ result' = Err(o.errno)
                   /\ UNCHANGED entries
              ELSE /\ pc' = "next_key"
                   /\ entries' = Append(entries, <<key, o.value>>)
                   /\ UNCHANGED <<errno, result>>
    /\ UNCHANGED <<key, next_key, first, ret, tableVars, statsVars, drawVars, dumpVars>>

\* ------------------------------------------------------------------------
\* The kernel-side producer, which runs concurrently with a read
\* ------------------------------------------------------------------------

ProducerWrite ==
    /\ pc \in {"next_key", "lookup"}
    /\ producer_ops < MaxProducerOps
    /\ \E k \in Keys :
        table' = [q \in DOMAIN table \cup {k} |->
                    IF q = k THEN ProducedInfo(producer_ops + 1) ELSE table[q]]
    /\ producer_ops' = producer_ops + 1
    /\ UNCHANGED <<order, readVars, statsVars, drawVars, dumpVars>>

ProducerDelete ==
    /\ pc \in {"next_key", "lookup"}
    /\ producer_ops < MaxProducerOps
    /\ \E k \in DOMAIN table :
        table' = [q \in DOMAIN table \ {k} |-> table[q]]
    /\ producer_ops' = producer_ops + 1
    /\ UNCHANGED <<order, readVars, statsVars, drawVars, dumpVars>>

\* ------------------------------------------------------------------------
\* f64 values: NaN, or an exact rational <<n, d>> in lowest terms with d > 0
\* (the rounding of binary floating point is not modelled)
\* ------------------------------------------------------------------------

NaN == <<0, 0>>
IsNaN(x) == x[2] = 0

Abs(i) == IF i < 0 THEN -i ELSE i

RECURSIVE GCD(_, _)
GCD(a, b) == IF b = 0 THEN a ELSE GCD(b, a % b)

\* The float n/d, d > 0.
Ratio(n, d) == LET g == GCD(Abs(n), d) IN <<n \div g, d \div g>>

\* `i as f64`
FromInt(i) == <<i, 1>>

FAdd(x, y) ==
    IF IsNaN(x) \/ IsNaN(y) THEN NaN
    ELSE LET l == (x[2] \div GCD(x[2], y[2])) * y[2]
         IN  Ratio(x[1] * (l \div x[2]) + y[1] * (l \div y[2]), l)

FNeg(x) == IF IsNaN(x) THEN NaN ELSE <<-x[1], x[2]>>

FSub(x, y) == FAdd(x, FNeg(y))

FMul(x, y) ==
    IF IsNaN(x) \/ IsNaN(y) THEN NaN
    ELSE LET a == Ratio(x[1], y[2])
             b == Ratio(y[1], x[2])
         IN  <<a[1] * b[1], a[2] * b[2]>>

\* x / y for y > 0.
FDiv(x, y) ==
    IF IsNaN(x) \/ IsNaN(y) THEN NaN ELSE FMul(x, <<y[2], y[1]>>)

\* IEEE comparisons: every comparison with NaN is false.
FLt(x, y) == ~IsNaN(x) /\ ~IsNaN(y) /\ x[1] * y[2] < y[1] * x[2]
FLe(x, y) == ~IsNaN(x) /\ ~IsNaN(y) /\ x[1] * y[2] <= y[1] * x[2]
FEq(x, y) == ~IsNaN(x) /\ ~IsNaN(y) /\ x = y

\* f64::clamp(self, min, max): min if self < min, max if self > max, else
\* self; in particular NaN stays NaN.
FClamp(x, lo, hi) == IF FLt(x, lo) THEN lo ELSE IF FLt(hi, x) THEN hi ELSE x

\* ------------------------------------------------------------------------
\* RollingStats (stats.rs:36-63)
\* ------------------------------------------------------------------------

Pids == 1 .. NumPids

\* stats.rs:57  the divisor 1_000_000.0 of the ns -> ms conversion
NsPerMs == 1000000

\* The --alpha values the engine is constructed with (main.rs:106-108 parses
\* any f64): NaN, below the range, inside it, above it.
AlphaInputs == {NaN, Ratio(-1, 2), Ratio(1, 4), Ratio(3, 2)}

\* A variant of ClampAlpha that stores alpha as given.
ClampAlphaOmitted(a) == a

\* stats.rs:46  alpha.clamp(0.0, 1.0)
ClampAlpha(a) == FClamp(a, FromInt(0), FromInt(1))

\* A variant of MapInsert that drops every other slot.
MapInsertClobbering(m, k, v) == [q \in {k} |-> v]

\* HashMap::insert / the write through entry(): only the slot of k changes.
MapInsert(m, k, v) == [q \in DOMAIN m \cup {k} |-> IF q = k THEN v ELSE m[q]]

\* A variant of SaturatingSub that does not stop at zero.
WrappingSub(a, b) == a - b

\* stats.rs:55  u64::saturating_sub
SaturatingSub(a, b) == IF a >= b THEN a - b ELSE 0

\* stats.rs:53-56  prev.map(|p| runtime_ns.saturating_sub(p)).unwrap_or_default()
RuntimeDelta(prev, pid, runtime_ns) ==
    IF pid \in DOMAIN prev THEN SaturatingSub(runtime_ns, prev[pid]) ELSE 0

\* A variant of SwitchDelta with neither the clamp nor the zero baseline.
SwitchDeltaUnclamped(prev, pid, switches) ==
    IF pid \in DOMAIN prev THEN switches - prev[pid] ELSE switches

\* The switch delta of the three-argument update that main.rs:470-471 calls;
\* stats.rs holds only the two-argument update, so this follows the design
\* text: the same clamp-to-zero policy as the runtime delta, over switches.
SwitchDelta(prev, pid, switches) ==
    IF pid \in DOMAIN prev
        THEN (IF switches >= prev[pid] THEN switches - prev[pid] ELSE 0)
        ELSE 0

\* stats.rs:57  delta_ns as f64 / 1_000_000.0
DeltaMs(delta_ns) == FDiv(FromInt(delta_ns), FromInt(NsPerMs))

\* stats.rs:58  *entry(pid).or_insert(delta_ms)
Current(rolling, pid, delta_ms) ==
    IF pid \in DOMAIN rolling THEN rolling[pid] ELSE delta_ms

\* A variant of Ewma with the two weights exchanged.
EwmaSwapped(a, delta_ms, current) ==
    FAdd(FMul(FSub(FromInt(1), a), delta_ms), FMul(a, current))

\* stats.rs:59  alpha * delta_ms + (1.0 - alpha) * *current
Ewma(a, delta_ms, current) ==
    FAdd(FMul(a, delta_ms), FMul(FSub(FromInt(1), a), current))

NoCall == [pid |-> 0, runtime_ns |-> 0, switches |-> 0]
NoUpdateRet == [runtime_delta_ns |-> 0, smoothed |-> FromInt(0), switch_delta |-> 0]
NotSeen == [seen |-> FALSE, runtime_ns |-> 0, switches |-> 0, smoothed |-> FromInt(0)]

\* stats.rs:52-62  RollingStats::update, extended by the switches argument
\* and the switch_delta result of the update that main.rs:470-471 calls:
\* the three maps after the call and the tuple it returns.
Updated(prev_rt, prev_sw, rolling, a, pid, runtime_ns, switches) ==
    LET delta_ns == RuntimeDelta(prev_rt, pid, runtime_ns)
        delta_ms == DeltaMs(delta_ns)
        current == Current(rolling, pid, delta_ms)
        next == Ewma(a, delta_ms, current)
        switch_delta == SwitchDelta(prev_sw, pid, switches)
    IN  [prev_runtime_ns |-> MapInsert(prev_rt, pid, runtime_ns),
         prev_switches |-> MapInsert(prev_sw, pid, switches),
         rolling_runtime_ms |-> MapInsert(rolling, pid, next),
         ret |-> [runtime_delta_ns |-> delta_ns, smoothed |-> next,
                  switch_delta |-> switch_delta]]

\* One call of RollingStats::update on the engine. `earlier` and `history`
\* record what was passed and returned, per pid.
Update(pid, runtime_ns, switches) ==
    LET u == Updated(prev_runtime_ns, prev_switches, rolling_runtime_ms, alpha,
                     pid, runtime_ns, switches)
        next == u.ret.smoothed
    IN  /\ updates < MaxUpdates
        /\ prev_runtime_ns' = u.prev_runtime_ns
        /\ prev_switches' = u.prev_switches
        /\ rolling_runtime_ms' = u.rolling_runtime_ms
        /\ update_ret' = u.ret
        /\ call' = [pid |-> pid, runtime_ns |-> runtime_ns, switches |-> switches]
        /\ earlier' = IF pid \in DOMAIN history
                         THEN [seen |-> TRUE, runtime_ns |-> history[pid].runtime_ns,
                               switches |-> history[pid].switches,
                               smoothed |-> history[pid].smoothed]
                         ELSE NotSeen
        /\ history' = [q \in DOMAIN history \cup {pid} |->
                         IF q = pid
                            THEN [runtime_ns |-> runtime_ns, switches |-> switches,
                                  smoothed |-> next]
                            ELSE history[q]]
        /\ updates' = updates + 1
        /\ UNCHANGED alpha

UpdateAny ==
    /\ \E pid \in Pids, runtime_ns \in 0 .. MaxRuntime, switches \in 0 .. MaxSwitches :
           Update(pid, runtime_ns, switches)
    /\ UNCHANGED <<tableVars, readVars, drawVars, dumpVars>>

\* stats.rs:44-50  RollingStats::new(alpha)
New(a) ==
    /\ alpha = ClampAlpha(a)
    /\ prev_runtime_ns = <<>>
    /\ prev_switches = <<>>
    /\ rolling_runtime_ms = <<>>

StatsGhostInit ==
    /\ updates = 0
    /\ call = NoCall
    /\ update_ret = NoUpdateRet
    /\ earlier = NotSeen
    /\ history = <<>>

\* ------------------------------------------------------------------------
\* simulate_lottery_draws (stats.rs:73-104)
\* ------------------------------------------------------------------------

\* The fields of a TaskSnapshot that the function reads.
Snapshot(pid, tickets) == [pid |-> pid, tickets |-> tickets]

Snapshots == {Snapshot(p, t) : p \in Pids, t \in 0 .. MaxTickets}

Populations == UNION {[1 .. n -> Snapshots] : n \in 0 .. MaxPop}

\* The sum of the tickets of the first n snapshots.
RECURSIVE TicketsUpTo(_, _)
TicketsUpTo(pop, n) ==
    IF n = 0 THEN 0 ELSE TicketsUpTo(pop, n - 1) + pop[n].tickets

\* stats.rs:78  population.iter().map(|s| s.info.tickets as u64).sum()
TotalTickets(pop) == TicketsUpTo(pop, Len(pop))

\* A variant of EarlyReturn without the test of the ticket sum.
EarlyReturnOnZeroDrawsOnly(d, total) == d = 0

\* stats.rs:79  draws == 0 || total_tickets == 0
EarlyReturn(d, total) == d = 0 \/ total = 0

\* A variant of Wins that is off by one.
WinsInclusive(target, share) == target <= share

\* stats.rs:92  target < share
Wins(target, share) == target < share

\* stats.rs:86-98: the scan of one draw from snapshot i on; the index of the
\* snapshot credited, or 0 when the scan runs off the end.
RECURSIVE Scan(_, _, _)
Scan(pop, i, target) ==
    IF i > Len(pop) THEN 0
    ELSE IF pop[i].tickets = 0 THEN Scan(pop, i + 1, target)
    ELSE IF Wins(target, pop[i].tickets) THEN i
    ELSE Scan(pop, i + 1, target - pop[i].tickets)

\* stats.rs:93  *counts.entry(snap.pid).or_insert(0) += 1
Credit(c, pid) ==
    [q \in DOMAIN c \cup {pid} |->
        IF q = pid THEN (IF pid \in DOMAIN c THEN c[pid] ELSE 0) + 1 ELSE c[q]]

\* Insert e behind every pair whose win count is >= e's (a stable insertion).
RECURSIVE InsertByWins(_, _)
InsertByWins(s, e) ==
    IF s = <<>> THEN <<e>>
    ELSE IF s[Len(s)][2] >= e[2] THEN Append(s, e)
    ELSE Append(InsertByWins(SubSeq(s, 1, Len(s) - 1), e), s[Len(s)])

\* stats.rs:102  pairs.sort_by(|a, b| b.1.cmp(&a.1))  (a stable sort)
RECURSIVE SortByWinsDesc(_)
SortByWinsDesc(s) ==
    IF s = <<>> THEN <<>>
    ELSE InsertByWins(SortByWinsDesc(SubSeq(s, 1, Len(s) - 1)), s[Len(s)])

\* stats.rs:101  counts.into_iter().collect(): the pairs of the map in the
\* iteration order of this HashMap, which its per-instance random hasher
\* decides: any order of its keys.
IterationOrders(c) ==
    {[i \in DOMAIN p |-> <<p[i], c[p[i]]>>] : p \in Perms(DOMAIN c)}

\* stats.rs:78-83: the call, up to the loop.
DrawBegin ==
    /\ draw_pc = "idle"
    /\ counts' = <<>>
    /\ credited' = <<>>
    /\ IF EarlyReturn(draws, TotalTickets(population))
          THEN draw_pc' = "done" /\ pairs' = <<>>
          ELSE draw_pc' = "drawing" /\ UNCHANGED pairs
    /\ UNCHANGED <<population, draws, rng_stream, rng_pos, invocation, first_pairs>>
    /\ UNCHANGED <<tableVars, readVars, statsVars, dumpVars>>

\* stats.rs:84-99: one pass of the loop. rng.gen_range(0..total_tickets)
\* yields the generator's next sample, and panics on an empty range.
DrawOnce ==
    /\ draw_pc = "drawing"
    /\ IF Len(credited) >= draws
          THEN /\ draw_pc' = "collect"
               /\ UNCHANGED <<rng_pos, counts, credited>>
          ELSE IF TotalTickets(population) = 0
          THEN /\ draw_pc' = "panicked"
               /\ UNCHANGED <<rng_pos, counts, credited>>
          ELSE LET target == rng_stream[rng_pos + 1]
                   i == Scan(population, 1, target)
               IN  /\ rng_pos' = rng_pos + 1
                   /\ counts' = IF i = 0 THEN counts
                                ELSE Credit(counts, population[i].pid)
                   /\ credited' = Append(credited, [target |-> target, index |-> i])
                   /\ UNCHANGED draw_pc
    /\ UNCHANGED <<population, draws, rng_stream, pairs, invocation, first_pairs>>
    /\ UNCHANGED <<tableVars, readVars, statsVars, dumpVars>>

\* stats.rs:101-103: collect the map into a vector, sort it, return it.
Collect ==
    /\ draw_pc = "collect"
    /\ \E unsorted \in IterationOrders(counts) :
           pairs' = SortByWinsDesc(unsorted)
    /\ draw_pc' = "done"
    /\ UNCHANGED <<population, draws, rng_stream, rng_pos, counts, credited,
                   invocation, first_pairs>>
    /\ UNCHANGED <<tableVars, readVars, statsVars, dumpVars>>

\* A second call with the same population and draw count and a generator
\* seeded again with the same seed (rand::SeedableRng, main.rs:178-181).
InvokeAgain ==
    /\ draw_pc = "done"
    /\ invocation = 1
    /\ invocation' = 2
    /\ first_pairs' = pairs
    /\ rng_pos' = 0
    /\ draw_pc' = "idle"
    /\ UNCHANGED <<population, draws, rng_stream, counts, credited, pairs>>
    /\ UNCHANGED <<tableVars, readVars, statsVars, dumpVars>>

\* No simulation is run.
DrawsIdle ==
    /\ population = <<>>
    /\ draws = 0
    /\ rng_stream = <<>>
    /\ rng_pos = 0
    /\ draw_pc = "idle"
    /\ counts = <<>>
    /\ credited = <<>>
    /\ pairs = <<>>
    /\ invocation = 1
    /\ first_pairs = <<>>

\* ------------------------------------------------------------------------
\* enrich_entries and the exporters (main.rs:390-500, 593-668)
\* ------------------------------------------------------------------------

\* f64::max(self, other): the other operand when one of them is NaN.
FMax(x, y) == IF IsNaN(x) THEN y ELSE IF IsNaN(y) THEN x ELSE IF FLt(x, y) THEN y ELSE x

\* A variant of TicketShare that divides by the total of another iteration,
\* here one ticket more than this iteration holds.
TicketShareOfStaleTotal(tickets, total) ==
    IF total = 0 THEN FromInt(0) ELSE FDiv(FromInt(tickets), FromInt(total + 1))

\* stats.rs:65-71  ticket_share(tickets, total_tickets)
TicketShare(tickets, total) ==
    IF total = 0 THEN FromInt(0) ELSE FDiv(FromInt(tickets), FromInt(total))

\* main.rs:201 and 278  entries.iter().map(|(_, info)| info.tickets as u64).sum()
RECURSIVE SumTickets(_)
SumTickets(list) ==
    IF list = <<>> THEN 0 ELSE list[1][2].tickets + SumTickets(Tail(list))

\* main.rs:466  window_ms.max(1.0)
FloorWindow(w) == FMax(w, FromInt(1))

\* main.rs:478  the lower bound 0.1 of an estimated period
PeriodFloor == Ratio(1, 10)

\* A variant of EstimatedPeriod without the lower bound.
EstimatedPeriodUnfloored(w, switch_delta) ==
    IF switch_delta > 0 THEN FDiv(w, FromInt(switch_delta)) ELSE w

\* main.rs:473-478  the estimated period of a task over a window of w ms
EstimatedPeriod(w, switch_delta) ==
    FMax(IF switch_delta > 0 THEN FDiv(w, FromInt(switch_delta)) ELSE w, PeriodFloor)

\* A variant of Utilization capped at one.
UtilizationCapped(delta_ms, period) ==
    IF FLt(FromInt(0), period)
        THEN (IF FLt(period, delta_ms) THEN FromInt(1) ELSE FDiv(delta_ms, period))
        ELSE FromInt(0)

\* main.rs:481-485
Utilization(delta_ms, period) ==
    IF FLt(FromInt(0), period) THEN FDiv(delta_ms, period) ELSE FromInt(0)

\* main.rs:487-498  the TaskSnapshot of one table entry, from the tuple u
\* that RollingStats::update returned for it
MakeSnapshot(pid, info, u, total, w) ==
    LET delta_ms == DeltaMs(u.runtime_delta_ns)
        period == EstimatedPeriod(w, u.switch_delta)
    IN  [pid |-> pid, info |-> info,
         runtime_delta_ns |-> u.runtime_delta_ns,
         rolling_runtime_ms |-> u.smoothed,
         switch_delta |-> u.switch_delta,
         estimated_period_ms |-> period,
         deadline_ms |-> period,
         lateness_ms |-> FSub(delta_ms, period),
         utilization |-> Utilization(delta_ms, period),
         ticket_share |-> TicketShare(info.tickets, total)]

\* TaskSnapshot::deadline_missed(), which main.rs:540 calls; stats.rs does
\* not hold it, so this follows the design text: lateness_ms > 0.
DeadlineMissed(snap) == FLt(FromInt(0), snap.lateness_ms)

\* The three maps of the engine.
Engine ==
    [prev_runtime_ns |-> prev_runtime_ns, prev_switches |-> prev_switches,
     rolling_runtime_ms |-> rolling_runtime_ms]

\* main.rs:469-499  the loop of enrich_entries: one update call and one
\* snapshot per entry, in list order.
RECURSIVE EnrichLoop(_, _, _, _, _)
EnrichLoop(list, engine, a, total, w) ==
    IF list = <<>> THEN [engine |-> engine, snapshots |-> <<>>]
    ELSE LET e == Head(list)
             u == Updated(engine.prev_runtime_ns, engine.prev_switches,
                          engine.rolling_runtime_ms, a, e[1], e[2].runtime_ns,
                          e[2].switches)
             rest == EnrichLoop(Tail(list),
                                [prev_runtime_ns |-> u.prev_runtime_ns,
                                 prev_switches |-> u.prev_switches,
                                 rolling_runtime_ms |-> u.rolling_runtime_ms],
                                a, total, w)
         IN  [engine |-> rest.engine,
              snapshots |-> <<MakeSnapshot(e[1], e[2], u.ret, total, w)>>
                            \o rest.snapshots]

\* A variant of EnrichEntries that forgets every task the list does not hold.
EnrichEntriesEvicting(list, total, engine, a, w) ==
    LET r == EnrichLoop(list, engine, a, total, FloorWindow(w))
        seen == {list[i][1] : i \in DOMAIN list}
        Keep(m) == [q \in DOMAIN m \cap seen |-> m[q]]
    IN  [engine |-> [prev_runtime_ns |-> Keep(r.engine.prev_runtime_ns),
                     prev_switches |-> Keep(r.engine.prev_switches),
                     rolling_runtime_ms |-> Keep(r.engine.rolling_runtime_ms)],
         snapshots |-> r.snapshots]

\* main.rs:460-500  enrich_entries(entries, total_tickets, rolling, window_ms):
\* the engine after the call and the snapshots returned.
EnrichEntries(list, total, engine, a, w) ==
    EnrichLoop(list, engine, a, total, FloorWindow(w))

\* Insert s behind every element whose lateness is >= s's (a stable insertion
\* into a list in descending order of lateness).
RECURSIVE InsertByLateness(_, _)
InsertByLateness(list, s) ==
    IF list = <<>> THEN <<s>>
    ELSE IF ~FLt(list[Len(list)].lateness_ms, s.lateness_ms) THEN Append(list, s)
    ELSE Append(InsertByLateness(SubSeq(list, 1, Len(list) - 1), s), list[Len(list)])

\* main.rs:602-606  flagged.sort_by(|a, b| b.lateness_ms.partial_cmp(&a.lateness_ms)...)
RECURSIVE SortByLatenessDesc(_)
SortByLatenessDesc(list) ==
    IF list = <<>> THEN <<>>
    ELSE InsertByLateness(SortByLatenessDesc(SubSeq(list, 1, Len(list) - 1)),
                          list[Len(list)])

\* main.rs:594-597  .filter(|e| e.lateness_ms > threshold_ms)
Flagged(threshold_ms, list) ==
    SelectSeq(list, LAMBDA e : FLt(threshold_ms, e.lateness_ms))

\* main.rs:593-620  emit_deadline_alerts: the alert lines printed, in order.
EmitDeadlineAlerts(threshold_ms, list) ==
    SortByLatenessDesc(Flagged(threshold_ms, list))

\* main.rs:224  if args.deadline_warn > 0.0
AlertsEnabled(threshold_ms) == FLt(FromInt(0), threshold_ms)

\* main.rs:399-458: write_csv and write_json put one row per
\* snapshot; a row is kept as its iteration and pid columns.
Rows(iter, list) == [i \in DOMAIN list |-> [iteration |-> iter + 1, pid |-> list[i].pid]]

\* main.rs:622-657  collect_trace_events: a Metadata and then a Slice event
\* per snapshot; ts stands for the iteration's relative timestamp.
RECURSIVE TraceEventsOf(_, _)
TraceEventsOf(ts, list) ==
    IF list = <<>> THEN <<>>
    ELSE <<[ph |-> "M", pid |-> list[1].pid, ts |-> 0],
           [ph |-> "X", pid |-> list[1].pid, ts |-> ts]>>
         \o TraceEventsOf(ts, Tail(list))

\* main.rs:659-668  flush_trace: nothing is written for an empty event list.
FlushTrace(file, events) == IF events = <<>> THEN file ELSE Append(file, events)

\* ------------------------------------------------------------------------
\* The polling loops: run_dump (main.rs:166-245), tui_loop (main.rs:267-300)
\* ------------------------------------------------------------------------

\* What the producer holds for a task: the zeroed record of a task that has
\* just appeared (or whose id was reused), or the counters of a task that ran
\* 300 ms per unit of its id, over 20 switches (task 1) or 5 switches (the
\* others), holding as many tickets as its id.
FreshInfo == TaskInfoDefault
BusyInfo(k) == TaskInfo(300 * NsPerMs * k, IF k = 1 THEN 20 ELSE 5, 0, k, 0)

\* The contents the table can have when a read begins.
DumpTables ==
    UNION {[present -> {FreshInfo}] : present \in SUBSET Pids}
    \cup UNION {{[k \in present |-> IF k \in busy THEN BusyInfo(k) ELSE FreshInfo] :
                    busy \in SUBSET present} : present \in SUBSET Pids}

\* The command lines: `dump` with --interval 0, --deadline-warn 0.5 and all of
\* --output, --json-output and --trace-output; `dump` with every option left
\* at its default (main.rs:85-129: --interval 1, --deadline-warn 0.0, no
\* export); `tui` with the default --refresh-ms. --simulate-draws stays 0.
DumpArgs ==
    {[command |-> "dump", interval |-> 0, iterations |-> MaxIterations,
      output |-> TRUE, json_output |-> TRUE, trace_output |-> TRUE,
      deadline_warn |-> Ratio(1, 2), refresh_ms |-> 0],
     [command |-> "dump", interval |-> 1, iterations |-> MaxIterations,
      output |-> FALSE, json_output |-> FALSE, trace_output |-> FALSE,
      deadline_warn |-> FromInt(0), refresh_ms |-> 0]}
TuiArgs ==
    [command : {"tui"}, interval : {0}, iterations : {MaxIterations},
     output : {FALSE}, json_output : {FALSE}, trace_output : {FALSE},
     deadline_warn : {FromInt(0)}, refresh_ms : {1000}]
NoArgs ==
    [command |-> "none", interval |-> 0, iterations |-> 0, output |-> FALSE,
     json_output |-> FALSE, trace_output |-> FALSE, deadline_warn |-> FromInt(0),
     refresh_ms |-> 0]

\* main.rs:196-200  the window of a dump iteration, in ms
DumpWindowMs(interval) ==
    IF interval = 0 THEN FromInt(1)
    ELSE FMul(FMax(FromInt(interval), Ratio(1, 1000)), FromInt(1000))

\* main.rs:273 and 279  Duration::from_millis(refresh_ms.max(100)) in ms
TuiWindowMs(refresh_ms) == FromInt(IF refresh_ms >= 100 THEN refresh_ms ELSE 100)

\* What a loop body finds when it begins: the engine, and how much has been
\* exported and collected so far.
Before ==
    [engine |-> Engine, csv_rows |-> Len(csv_rows), json_rows |-> Len(json_rows),
     trace_events |-> Len(trace_events), tui_history |-> tui_history]
NothingBefore ==
    [engine |-> [prev_runtime_ns |-> <<>>, prev_switches |-> <<>>,
                 rolling_runtime_ms |-> <<>>],
     csv_rows |-> 0, json_rows |-> 0, trace_events |-> 0, tui_history |-> 0]

\* A variant of EmptyTableStatus that fails the run.
EmptyTableFails == "err"

\* main.rs:191-194  what run_dump returns on an empty read: Ok(())
EmptyTableStatus == "ok"

\* The kernel-side producer between two reads: any change of the table.
ProducerRuns ==
    /\ run_status = "running"
    /\ pc = "idle"
    /\ table' \in DumpTables \ {table}
    /\ UNCHANGED <<order, producer_ops, readVars, statsVars, drawVars, dumpVars>>

\* main.rs:190 and 277  iterate_task_info(map_fd.as_raw_fd()), step by step
PollRead ==
    /\ run_status = "running"
    /\ (ReadBegin \/ GetNextKey \/ Lookup)

\* The rest of the run_dump loop body once the read has returned
\* (main.rs:190-237), and the end of the loop (main.rs:240-244).
DumpBody ==
    /\ args.command = "dump"
    /\ run_status = "running"
    /\ pc = "done"
    /\ pc' = "idle"
    /\ before' = Before
    /\ IF result.kind = "err"
          THEN \* the `?` of main.rs:190
               /\ run_status' = "err"
               /\ snapshots' = <<>>
               /\ alerts' = <<>>
               /\ UNCHANGED <<prev_runtime_ns, prev_switches, rolling_runtime_ms,
                              iteration, window_ms, total_tickets, csv_rows,
                              json_rows, trace_events, trace_file>>
          ELSE IF result.entries = <<>>
          THEN \* main.rs:191-194
               /\ run_status' = EmptyTableStatus
               /\ snapshots' = <<>>
               /\ alerts' = <<>>
               /\ UNCHANGED <<prev_runtime_ns, prev_switches, rolling_runtime_ms,
                              iteration, window_ms, total_tickets, csv_rows,
                              json_rows, trace_events, trace_file>>
          ELSE LET w == DumpWindowMs(args.interval)
                   total == SumTickets(result.entries)
                   r == EnrichEntries(result.entries, total, Engine, alpha, w)
                   events == IF args.trace_output
                                THEN trace_events \o TraceEventsOf(iteration + 1, r.snapshots)
                                ELSE trace_events
                   last == iteration + 1 = args.iterations
               IN  /\ window_ms' = w
                   /\ total_tickets' = total
                   /\ snapshots' = r.snapshots
                   /\ prev_runtime_ns' = r.engine.prev_runtime_ns
                   /\ prev_switches' = r.engine.prev_switches
                   /\ rolling_runtime_ms' = r.engine.rolling_runtime_ms
                   /\ alerts' = IF AlertsEnabled(args.deadline_warn)
                                   THEN EmitDeadlineAlerts(args.deadline_warn, r.snapshots)
                                   ELSE <<>>
                   /\ csv_rows' = IF args.output
                                     THEN csv_rows \o Rows(iteration, r.snapshots)
                                     ELSE csv_rows
                   /\ json_rows' = IF args.json_output
                                      THEN json_rows \o Rows(iteration, r.snapshots)
                                      ELSE json_rows
                   /\ trace_events' = events
                   /\ iteration' = iteration + 1
                   /\ trace_file' = IF last /\ args.trace_output
                                       THEN FlushTrace(trace_file, events)
                                       ELSE trace_file
                   /\ run_status' = IF last THEN "ok" ELSE "running"
    /\ UNCHANGED <<args, tui_history, alpha, updates, call, update_ret, earlier, history>>
    /\ UNCHANGED <<tableVars, entries, key, next_key, first, ret, lookup_ret, errno,
                   result, drawVars>>

\* The rest of the tui_loop body once the read has returned (main.rs:277-299):
\* the dashboard is drawn, and the loop ends when the user presses q or Esc
\* (here at the latest after MaxIterations bodies).
TuiBody ==
    /\ args.command = "tui"
    /\ run_status = "running"
    /\ pc = "done"
    /\ pc' = "idle"
    /\ before' = Before
    /\ IF result.kind = "err"
          THEN /\ run_status' = "err"
               /\ snapshots' = <<>>
               /\ UNCHANGED <<prev_runtime_ns, prev_switches, rolling_runtime_ms,
                              iteration, window_ms, total_tickets, tui_history>>
          ELSE LET w == TuiWindowMs(args.refresh_ms)
                   total == SumTickets(result.entries)
                   r == EnrichEntries(result.entries, total, Engine, alpha, w)
               IN  /\ window_ms' = w
                   /\ total_tickets' = total
                   /\ snapshots' = r.snapshots
                   /\ prev_runtime_ns' = r.engine.prev_runtime_ns
                   /\ prev_switches' = r.engine.prev_switches
                   /\ rolling_runtime_ms' = r.engine.rolling_runtime_ms
                   /\ tui_history' = tui_history + 1
                   /\ iteration' = iteration + 1
                   /\ \E quit \in BOOLEAN :
                        /\ iteration + 1 = args.iterations => quit
                        /\ run_status' = IF quit THEN "ok" ELSE "running"
    /\ UNCHANGED <<args, alerts, csv_rows, json_rows, trace_events, trace_file,
                   alpha, updates, call, update_ret, earlier, history>>
    /\ UNCHANGED <<tableVars, entries, key, next_key, first, ret, lookup_ret, errno,
                   result, drawVars>>

\* No polling run.
DumpIdle ==
    /\ args = NoArgs
    /\ iteration = 0
    /\ run_status = "running"
    /\ window_ms = FromInt(0)
    /\ total_tickets = 0
    /\ snapshots = <<>>
    /\ alerts = <<>>
    /\ csv_rows = <<>>
    /\ json_rows = <<>>
    /\ trace_events = <<>>
    /\ trace_file = <<>>
    /\ tui_history = 0
    /\ before = NothingBefore

\* ------------------------------------------------------------------------
\* Specifications
\* ------------------------------------------------------------------------

\* No table and no read in progress.
TableIdle ==
    /\ order = <<>>
    /\ table = <<>>
    /\ producer_ops = 0
    /\ pc = "idle"
    /\ entries = <<>>
    /\ key = 0
    /\ next_key = 0
    /\ first = TRUE
    /\ ret = 0
    /\ lookup_ret = 0
    /\ errno = NoErrno
    /\ result = NoResult

\* An engine nobody calls.
StatsIdle == New(FromInt(0)) /\ StatsGhostInit

\* One table read against a concurrently mutated map.

TableInit ==
    /\ order \in Perms(Keys)
    /\ \E present \in SUBSET Keys : table = [k \in present |-> ProducedInfo(0)]
    /\ producer_ops = 0
    /\ pc = "idle"
    /\ entries = <<>>
    /\ key = 0
    /\ next_key = 0
    /\ first = TRUE
    /\ ret = 0
    /\ lookup_ret = 0
    /\ errno = NoErrno
    /\ result = NoResult
    /\ StatsIdle
    /\ DrawsIdle
    /\ DumpIdle

TableNext ==
    \/ ReadBegin
    \/ GetNextKey
    \/ Lookup
    \/ ProducerWrite
    \/ ProducerDelete

SpecTable == TableInit /\ [][TableNext]_vars

\* An engine constructed with any alpha and driven by any sequence of updates.
StatsInit ==
    /\ TableIdle
    /\ \E a \in AlphaInputs : New(a)
    /\ StatsGhostInit
    /\ DrawsIdle
    /\ DumpIdle

StatsNext == UpdateAny

SpecStats == StatsInit /\ [][StatsNext]_vars

\* simulate_lottery_draws called on any population with any draw count and
\* any seeded generator, and then called again with the same arguments and
\* the same seed.
DrawsInit ==
    /\ TableIdle
    /\ StatsIdle
    /\ population \in Populations
    /\ draws \in 0 .. MaxDraws
    /\ rng_stream \in IF TotalTickets(population) = 0
                        THEN {<<>>}
                        ELSE [1 .. draws -> 0 .. TotalTickets(population) - 1]
    /\ rng_pos = 0
    /\ draw_pc = "idle"
    /\ counts = <<>>
    /\ credited = <<>>
    /\ pairs = <<>>
    /\ invocation = 1
    /\ first_pairs = <<>>
    /\ DumpIdle

DrawsNext ==
    \/ DrawBegin
    \/ DrawOnce
    \/ Collect
    \/ InvokeAgain

SpecDraws == DrawsInit /\ [][DrawsNext]_vars

\* A polling run (dump or tui) with the default --alpha against a table that
\* the producer changes between the reads.
DumpInit ==
    /\ order = [i \in 1 .. NumPids |-> NumPids + 1 - i]
    /\ table \in DumpTables
    /\ producer_ops = 0
    /\ pc = "idle"
    /\ entries = <<>>
    /\ key = 0
    /\ next_key = 0
    /\ first = TRUE
    /\ ret = 0
    /\ lookup_ret = 0
    /\ errno = NoErrno
    /\ result = NoResult
    /\ New(Ratio(1, 2))
    /\ StatsGhostInit
    /\ DrawsIdle
    /\ args \in DumpArgs \cup TuiArgs
    /\ iteration = 0
    /\ run_status = "running"
    /\ window_ms = FromInt(0)
    /\ total_tickets = 0
    /\ snapshots = <<>>
    /\ alerts = <<>>
    /\ csv_rows = <<>>
    /\ json_rows = <<>>
    /\ trace_events = <<>>
    /\ trace_file = <<>>
    /\ tui_history = 0
    /\ before = NothingBefore

DumpNext ==
    \/ ProducerRuns
    \/ PollRead
    \/ DumpBody
    \/ TuiBody

SpecDump == DumpInit /\ [][DumpNext]_vars

\* ------------------------------------------------------------------------
\* Claims about iterate_task_info, checked under SpecTable
\* ------------------------------------------------------------------------

\* How often x occurs in the sequence s.
Occurrences(s, x) == Cardinality({i \in DOMAIN s : s[i] = x})

\* s and t hold the same elements, each as often.
SameElements(s, t) ==
    /\ Len(s) = Len(t)
    /\ \A i \in DOMAIN s : Occurrences(s, s[i]) = Occurrences(t, s[i])

\* The read ended in a bpf_map_lookup_elem call that failed with ENOENT:
\* the key it had just enumerated was deleted before the lookup.
LookupMissedVanishedKey == pc = "done" /\ lookup_ret < 0 /\ errno = ENOENT

\* C1: a point lookup that fails because the producer removed the key
\* between the next-key call and the lookup does not make the read fail:
\* the entry is dropped and the read goes on to return successfully.
C1_VanishedKeyIsDropped == LookupMissedVanishedKey => result.kind # "err"

\* The read ended in a bpf_map_get_next_key call (no lookup failed).
EndedAtNextKey == pc = "done" /\ ret < 0 /\ lookup_ret >= 0

\* C7: a next-key call that fails with ENOENT ends the read successfully
\* with exactly the entries collected so far (none for an empty table); a
\* next-key call that fails with any other errno makes the read fail with
\* that error and return no entries.
C7_EndOfTableEndsRead ==
    /\ ret < 0 => pc = "done"
    /\ EndedAtNextKey /\ errno = ENOENT =>
          /\ result.kind = "ok"
          /\ SameElements(result.entries, entries)
    /\ EndedAtNextKey /\ errno # ENOENT =>
          /\ result.kind = "err"
          /\ result.err = errno
          /\ result.entries = <<>>

\* A read of a table with at least two entries that ended at end-of-table.
C7_Witness ==
    /\ EndedAtNextKey
    /\ errno = ENOENT
    /\ result.kind = "ok"
    /\ Len(result.entries) >= 2

\* C8: every successfully returned list is in ascending order of task id,
\* whatever order the keys were enumerated in.
C8_ResultSortedByTaskId ==
    result.kind = "ok" =>
        \A i, j \in DOMAIN result.entries :
            i < j => result.entries[i][1] <= result.entries[j][1]

\* A successful read whose keys were enumerated out of ascending order.
C8_Witness ==
    /\ result.kind = "ok"
    /\ \E i, j \in DOMAIN entries : i < j /\ entries[i][1] > entries[j][1]

\* ------------------------------------------------------------------------
\* Claims about RollingStats, checked under SpecStats
\* ------------------------------------------------------------------------

\* max(0, a - b)
ClampedDifference(a, b) == IF a - b > 0 THEN a - b ELSE 0

\* C3: the runtime delta an update returns is 0 on the first call for its
\* task id and otherwise max(0, runtime_ns - previous_runtime_ns) against the
\* runtime_ns of the most recent earlier update of that id; it is never
\* negative.
C3_RuntimeDeltaClamped ==
    updates > 0 =>
        /\ update_ret.runtime_delta_ns >= 0
        /\ update_ret.runtime_delta_ns =
              IF earlier.seen
                 THEN ClampedDifference(call.runtime_ns, earlier.runtime_ns)
                 ELSE 0

\* An update of a known task whose runtime_ns went down.
C3_Witness ==
    /\ updates > 0
    /\ earlier.seen
    /\ call.runtime_ns < earlier.runtime_ns
    /\ update_ret.runtime_delta_ns = 0

\* C4: the switch delta an update returns is 0 on the first observation of
\* its task id and otherwise max(0, switches - previous_switches) against the
\* switches of the most recent earlier update of that id.
C4_SwitchDeltaClamped ==
    updates > 0 =>
        /\ update_ret.switch_delta >= 0
        /\ update_ret.switch_delta =
              IF earlier.seen
                 THEN ClampedDifference(call.switches, earlier.switches)
                 ELSE 0

\* An update of a known task whose switches counter went down.
C4_Witness ==
    /\ updates > 0
    /\ earlier.seen
    /\ call.switches < earlier.switches
    /\ update_ret.switch_delta = 0

\* alpha * delta_ms + (1 - alpha) * previous, written out over the returned
\* delta.
Recurrence(a, delta_ns, previous) ==
    FAdd(FMul(a, Ratio(delta_ns, NsPerMs)),
         FMul(FSub(FromInt(1), a), previous))

\* The latest update returned the smoothed value the recurrence prescribes:
\* the first delta (0) for a new task id, alpha * delta_ms + (1 - alpha) *
\* (the value its preceding update returned) otherwise.
SmoothedFollowsRecurrence ==
    updates > 0 =>
        IF earlier.seen
           THEN FEq(update_ret.smoothed,
                    Recurrence(alpha, update_ret.runtime_delta_ns, earlier.smoothed))
           ELSE FEq(update_ret.smoothed, FromInt(0))

\* C5: alpha lies in [0,1] after construction, and the smoothed runtime is
\* seeded with the first delta (0) on the first observation of a task id and
\* follows next = alpha * delta_ms + (1 - alpha) * previous_smoothed on every
\* later update.
C5_EwmaRecurrence ==
    updates > 0 =>
        /\ FLe(FromInt(0), alpha) /\ FLe(alpha, FromInt(1))
        /\ SmoothedFollowsRecurrence

\* What does hold: the recurrence, for every engine whose alpha is a number.
C5_RecurrenceUnlessAlphaNaN == IsNaN(alpha) \/ C5_EwmaRecurrence

\* A third update of one task, with a nonzero smoothed value behind it.
C5_RecurrenceWitness ==
    /\ updates > 0
    /\ earlier.seen
    /\ ~IsNaN(alpha)
    /\ FLt(FromInt(0), earlier.smoothed)
    /\ FLt(FromInt(0), update_ret.smoothed)
    /\ ~FEq(update_ret.smoothed, earlier.smoothed)

\* The stored state of task id q: absent, or its counters and smoothed value.
Stored(rt, sw, ro, q) ==
    <<IF q \in DOMAIN rt THEN <<rt[q]>> ELSE <<>>,
      IF q \in DOMAIN sw THEN <<sw[q]>> ELSE <<>>,
      IF q \in DOMAIN ro THEN <<ro[q]>> ELSE <<>>>>

\* C6: an update of task_id leaves the stored previous counters and smoothed
\* value of every other task id as they were, and leaves alpha as it was.
C6_UpdateFrame ==
    [][/\ alpha' = alpha
       /\ \A q \in Pids :
            q # call'.pid =>
                Stored(prev_runtime_ns', prev_switches', rolling_runtime_ms', q)
                    = Stored(prev_runtime_ns, prev_switches, rolling_runtime_ms, q)]_vars

\* An update made while another task id has state stored.
C6_Witness ==
    /\ updates > 0
    /\ \E q \in Pids : q # call.pid /\ q \in DOMAIN prev_runtime_ns
                       /\ q \in DOMAIN rolling_runtime_ms

\* ------------------------------------------------------------------------
\* Claims about simulate_lottery_draws, checked under SpecDraws
\* ------------------------------------------------------------------------

\* The second of two calls with the same population, the same draw count and
\* a generator seeded with the same seed has returned.
BothCallsReturned == invocation = 2 /\ draw_pc = "done"

\* C2: two invocations with the same population order, the same draw count
\* and a generator seeded with the same seed return exactly the same
\* sequence of (task_id, win_count) pairs, the order of tasks with equal win
\* counts included.
C2_SameSeedSameOutput == BothCallsReturned => pairs = first_pairs

\* What does hold of two such calls: the same pairs, the order of tasks with
\* equal win counts aside.
C2_SameSeedSamePairs ==
    BothCallsReturned =>
        /\ {pairs[i] : i \in DOMAIN pairs} = {first_pairs[i] : i \in DOMAIN first_pairs}
        /\ Len(pairs) = Len(first_pairs)
        /\ \A i \in DOMAIN pairs : pairs[i][2] = first_pairs[i][2]

\* The sum of the win counts of the first n pairs.
RECURSIVE WinsUpTo(_, _)
WinsUpTo(ps, n) == IF n = 0 THEN 0 ELSE WinsUpTo(ps, n - 1) + ps[n][2]

\* The sum of the values of the counts map.
RECURSIVE CountSum(_, _)
CountSum(c, keys) ==
    IF keys = {} THEN 0
    ELSE LET k == CHOOSE x \in keys : TRUE IN c[k] + CountSum(c, keys \ {k})

\* C9: with total tickets > 0, every draw credits exactly one task, one with
\* nonzero tickets whose cumulative ticket range in input order contains the
\* sampled target; the win counts of the output sum to draw_count, and every
\* task in the output is one that holds tickets.
C9_EachDrawCreditsRangeOwner ==
    TotalTickets(population) > 0 =>
        /\ \A d \in DOMAIN credited :
              LET i == credited[d].index
                  t == credited[d].target
              IN  /\ i \in DOMAIN population
                  /\ population[i].tickets > 0
                  /\ TicketsUpTo(population, i - 1) <= t
                  /\ t < TicketsUpTo(population, i)
        /\ CountSum(counts, DOMAIN counts) = Len(credited)
        /\ \A d \in DOMAIN credited :
              population[credited[d].index].pid \in DOMAIN counts
        /\ draw_pc = "done" =>
              /\ WinsUpTo(pairs, Len(pairs)) = draws
              /\ \A k \in DOMAIN pairs :
                    \E i \in DOMAIN population :
                        /\ population[i].pid = pairs[k][1]
                        /\ population[i].tickets > 0

\* A finished run of at least two draws over a population whose first task
\* holds no ticket, with a later task credited for a target above 0.
C9_Witness ==
    /\ draw_pc = "done"
    /\ draws >= 2
    /\ Len(credited) = draws
    /\ population # <<>>
    /\ population[1].tickets = 0
    /\ \E d \in DOMAIN credited : credited[d].index >= 2 /\ credited[d].target >= 1

\* C10: when draw_count is 0 or the tickets of the population sum to 0 (an
\* empty population included), the call returns an empty result and takes
\* no sample from the generator.
C10_NothingToDrawReturnsEmpty ==
    draws = 0 \/ TotalTickets(population) = 0 =>
        /\ draw_pc \in {"idle", "done"}
        /\ rng_pos = 0
        /\ draw_pc = "done" => pairs = <<>>

\* A call with draws to make that returned at once because no task of its
\* non-empty population holds a ticket.
C10_Witness ==
    /\ draw_pc = "done"
    /\ draws > 0
    /\ population # <<>>
    /\ TotalTickets(population) = 0
    /\ pairs = <<>>

\* ------------------------------------------------------------------------
\* Claims about the polling loops (SpecDump)
\* ------------------------------------------------------------------------

\* A loop body has run on the latest read and no later read has returned.
BodyDone == pc # "done" /\ result.kind = "ok"

\* The sum of the ticket shares of a snapshot list.
RECURSIVE SumShares(_)
SumShares(list) ==
    IF list = <<>> THEN FromInt(0) ELSE FAdd(list[1].ticket_share, SumShares(Tail(list)))

\* C11: in the snapshot list of an iteration every ticket_share times the
\* total of the tickets of that iteration's own entries gives the task's
\* tickets, so the shares add up to 1 when that total is positive; when it
\* is 0 every share is 0.
C11_SharesOfThisIteration ==
    (BodyDone /\ snapshots # <<>>) =>
        LET total == SumTickets(result.entries)
        IN  /\ total_tickets = total
            /\ Len(snapshots) = Len(result.entries)
            /\ \A i \in DOMAIN snapshots :
                  /\ snapshots[i].info = result.entries[i][2]
                  /\ IF total = 0
                        THEN snapshots[i].ticket_share = FromInt(0)
                        ELSE FMul(snapshots[i].ticket_share, FromInt(total))
                                = FromInt(snapshots[i].info.tickets)
            /\ total > 0 => SumShares(snapshots) = FromInt(1)

\* The second iteration holds two tasks with different shares of a total
\* that differs from the total of the first iteration.
C11_Witness ==
    /\ BodyDone
    /\ iteration = 2
    /\ Len(snapshots) = 2
    /\ snapshots[1].ticket_share = Ratio(1, 3)
    /\ snapshots[2].ticket_share = Ratio(2, 3)
    /\ csv_rows # <<>>
    /\ Len(csv_rows) = 3

\* A float that is neither NaN nor the result of a division by zero.
Finite(x) == x[2] > 0

\* C12: every snapshot of every iteration has a ticket_share between 0 and
\* 1, a utilization of at least 0, an estimated_period_ms and a deadline_ms of
\* at least 0.1, and a finite utilization and lateness_ms.
C12_SnapshotRanges ==
    \A i \in DOMAIN snapshots :
        LET s == snapshots[i]
        IN  /\ FLe(FromInt(0), s.ticket_share) /\ FLe(s.ticket_share, FromInt(1))
            /\ FLe(FromInt(0), s.utilization)
            /\ FLe(Ratio(1, 10), s.estimated_period_ms)
            /\ FLe(Ratio(1, 10), s.deadline_ms)
            /\ Finite(s.utilization)
            /\ Finite(s.lateness_ms)

\* A task that switched 20 times in a window of 1 ms: its period sits on the
\* floor, and its utilization is far above 1.
C12_Witness ==
    \E i \in DOMAIN snapshots :
        /\ snapshots[i].switch_delta = 20
        /\ window_ms = FromInt(1)
        /\ snapshots[i].estimated_period_ms = Ratio(1, 10)
        /\ FLt(FromInt(1), snapshots[i].utilization)
        /\ FLt(FromInt(0), snapshots[i].ticket_share)

\* runtime_delta_ms of a snapshot.
RuntimeDeltaMs(s) == Ratio(s.runtime_delta_ns, NsPerMs)

\* The window of the latest loop body, not below 1 ms, divided by the
\* switch delta of s when that is positive.
WindowPerSwitch(s) ==
    LET w == IF FLt(window_ms, FromInt(1)) THEN FromInt(1) ELSE window_ms
    IN  IF s.switch_delta > 0 THEN FDiv(w, FromInt(s.switch_delta)) ELSE w

\* deadline_ms, lateness_ms, utilization and the deadline miss of s follow
\* from its estimated_period_ms and its runtime delta.
DerivedFromPeriod(s) ==
    /\ s.deadline_ms = s.estimated_period_ms
    /\ FAdd(s.lateness_ms, s.deadline_ms) = RuntimeDeltaMs(s)
    /\ FMul(s.utilization, s.estimated_period_ms) = RuntimeDeltaMs(s)
    /\ DeadlineMissed(s) <=> FLt(FromInt(0), s.lateness_ms)
    /\ DeadlineMissed(s) <=> FLt(s.deadline_ms, RuntimeDeltaMs(s))

\* C13: estimated_period_ms is the window (floored at 1.0) divided by
\* switch_delta when switch_delta > 0 and the window otherwise; deadline_ms
\* equals it, lateness_ms is runtime_delta_ms - deadline_ms, utilization is
\* runtime_delta_ms / estimated_period_ms without a cap, and the task misses
\* its deadline exactly when lateness_ms > 0.
C13_PeriodIsWindowPerSwitch ==
    \A i \in DOMAIN snapshots :
        /\ snapshots[i].estimated_period_ms = WindowPerSwitch(snapshots[i])
        /\ DerivedFromPeriod(snapshots[i])

\* C13, amended: estimated_period_ms is the larger of 0.1 and the window
\* (floored at 1.0) divided by switch_delta when switch_delta > 0, the window
\* otherwise; the rest as stated.
C13_PeriodIsFlooredWindowPerSwitch ==
    \A i \in DOMAIN snapshots :
        /\ snapshots[i].estimated_period_ms =
              (IF FLt(WindowPerSwitch(snapshots[i]), Ratio(1, 10))
                  THEN Ratio(1, 10)
                  ELSE WindowPerSwitch(snapshots[i]))
        /\ DerivedFromPeriod(snapshots[i])

\* One list holds a task on the floor (20 switches in 1 ms) and a task above
\* it (5 switches in 1 ms), both past their deadlines and used beyond 1.
C13_Witness ==
    /\ Len(snapshots) >= 2
    /\ snapshots[1].switch_delta = 20
    /\ snapshots[1].estimated_period_ms = Ratio(1, 10)
    /\ snapshots[2].switch_delta = 5
    /\ snapshots[2].estimated_period_ms = Ratio(1, 5)
    /\ \A i \in 1 .. 2 :
          DeadlineMissed(snapshots[i]) /\ FLt(FromInt(1), snapshots[i].utilization)

\* C14: a loop body that found the table empty built no snapshot, wrote no
\* CSV row and no NDJSON line, collected no trace event, left the engine as
\* it was, and did not end the run with a failure.
C14_EmptyTableIsHarmless ==
    (BodyDone /\ result.entries = <<>>) =>
        /\ snapshots = <<>>
        /\ Len(csv_rows) = before.csv_rows
        /\ Len(json_rows) = before.json_rows
        /\ Len(trace_events) = before.trace_events
        /\ Engine = before.engine
        /\ run_status # "err"

\* A dump run with every exporter configured finds the table empty in its
\* second iteration, after an iteration that exported rows and touched the
\* engine.
C14_Witness ==
    /\ BodyDone
    /\ result.entries = <<>>
    /\ args.command = "dump"
    /\ iteration = 1
    /\ csv_rows # <<>>
    /\ json_rows # <<>>
    /\ trace_events # <<>>
    /\ DOMAIN prev_runtime_ns # {}

\* The task ids of a list of table entries.
PidsOf(list) == {list[i][1] : i \in DOMAIN list}

\* C15: a loop body builds no snapshot for a task id that its read did not
\* return, and leaves what the engine stores for that id as it was: kept
\* unchanged if it was stored, not created if it was not.
C15_AbsentTaskKeepsItsState ==
    BodyDone =>
        \A q \in Pids \ PidsOf(result.entries) :
            /\ \A i \in DOMAIN snapshots : snapshots[i].pid # q
            /\ Stored(prev_runtime_ns, prev_switches, rolling_runtime_ms, q)
                 = Stored(before.engine.prev_runtime_ns, before.engine.prev_switches,
                          before.engine.rolling_runtime_ms, q)

\* Task 1 ran in the first iteration and is gone in the second, which holds
\* another task; the engine still stores task 1's counters.
C15_Witness ==
    /\ BodyDone
    /\ iteration = 2
    /\ PidsOf(result.entries) = {2}
    /\ Len(snapshots) = 1
    /\ 1 \in DOMAIN before.engine.prev_runtime_ns
    /\ before.engine.prev_runtime_ns[1] > 0
    /\ 1 \in DOMAIN prev_runtime_ns

\* How many elements of list satisfy Test.
CountOf(list, Test(_)) == Cardinality({i \in DOMAIN list : Test(list[i])})

\* C16: a dump run with --trace-output (and --output, whose rows name the
\* tasks of every iteration that produced snapshots) that has ended normally
\* after producing snapshots has written the trace document exactly once, and
\* the document holds one metadata event and one slice event for every task
\* of every such iteration.
C16_TraceWrittenOnceWhenRunEnds ==
    (/\ args.command = "dump" /\ args.trace_output /\ args.output
     /\ run_status = "ok" /\ csv_rows # <<>>) =>
        /\ Len(trace_file) = 1
        /\ \A i \in DOMAIN csv_rows :
              LET row == csv_rows[i]
                  SliceOfRow(e) == e.ph = "X" /\ e.pid = row.pid /\ e.ts = row.iteration
                  MetaOfPid(e) == e.ph = "M" /\ e.pid = row.pid
                  RowOfPid(r) == r.pid = row.pid
              IN  /\ CountOf(trace_file[1], SliceOfRow) = 1
                  /\ CountOf(trace_file[1], MetaOfPid) = CountOf(csv_rows, RowOfPid)

\* One alert per flagged task: the alert lines name exactly the tasks of the
\* snapshot list whose lateness_ms is above the threshold.
AlertsNameTheLate(threshold_ms) ==
    {alerts[i].pid : i \in DOMAIN alerts}
        = {snapshots[i].pid : i \in {j \in DOMAIN snapshots :
                                        FLt(threshold_ms, snapshots[j].lateness_ms)}}

\* The alert lines are in descending order of lateness.
AlertsDescending ==
    \A i, j \in DOMAIN alerts :
        i < j => FLe(alerts[j].lateness_ms, alerts[i].lateness_ms)

\* C17: after every loop body of a dump run, whatever --deadline-warn is,
\* the alerts printed name exactly the tasks whose lateness_ms exceeds it, in
\* descending order of lateness.
C17_AlertsForEveryThreshold ==
    (args.command = "dump" /\ BodyDone) =>
        AlertsNameTheLate(args.deadline_warn) /\ AlertsDescending

\* ------------------------------------------------------------------------
\* One update per task id and iteration (SpecTable)
\* ------------------------------------------------------------------------

\* C18: the list a read returns holds every task id at most once, whatever
\* the producer inserts or deletes during the walk, so that enrich_entries,
\* which calls update once per element, updates each id at most once.
C18_EachTaskIdOncePerRead ==
    result.kind = "ok" =>
        \A i, j \in DOMAIN result.entries :
            i # j => result.entries[i][1] # result.entries[j][1]

====
